---- MODULE Spec2Model ----
(***************************************************************************)
(* A model of class-action (src/src/class-action.ts): the ClassAction      *)
(* object, its instance and static reaction lists, the constructor, the    *)
(* accessors, the two mutators and the synchronous propagation of act.     *)
(*                                                                         *)
(* Objects are numbered in creation order.  Objects 1 and 2 are the        *)
(* `reaction1` and `reaction2` every test creates first with               *)
(* `new ClassAction()`; the subclasses of the tests close over them.       *)
(* The propagation of act / doReactions is run on an explicit call stack,  *)
(* one frame per method invocation, and every invocation of act and of     *)
(* doAction is appended to `log`.                                          *)
(***************************************************************************)
EXTENDS Integers, Sequences, FiniteSets, TLC

\* ------------------------------------------------------------------ bounds

\* The size of the graph-building part of a run: every constructor,
\* addReactions or removeReaction call counts one, plus one for every
\* reference it is passed.
MaxWork == 3

\* The number of act calls the README's run makes.
MaxActs == 3

\* The number of reactions the action under change holds at the start.
MaxHeld == 2

\* The depth at which the engine's call stack overflows (a RangeError).  A
\* propagation over an acyclic graph always fits: it nests at most one act and
\* one doReactions frame per object, and a run has at most 2 + MaxWork objects.
StackLimit == 2 * (2 + MaxWork) + 2

\* ------------------------------------------------------------------ classes

\* class-action.ts:26, and the three subclasses the tests declare:
\*   test:43-45  class MyClassAction extends ClassAction { static reactions = [reaction1, reaction2] }
\*   test:20-22  class MyClassAction extends ClassAction { reactions = [reaction1] }
\*   test:29-33  class MyClassAction extends ClassAction { constructor(...reactions) { super(reaction1, ...reactions) } }
Classes == {"ClassAction", "StaticSub", "FieldSub", "SuperSub"}

\* Subclasses in the manner of the tests', for the class chain (a subclass of
\* StaticSub inherits the constructor's static properties through
\* `this.reactions`, class-action.ts:89) and for a doAction that fails:
\*   class DerivedSub extends StaticSub {}
\*   class OverrideSub extends StaticSub { static reactions = [reaction2] }
\*   class ThrowSub extends ClassAction { doAction(context) { throw new Error() } }
SubClasses == {"DerivedSub", "OverrideSub", "ThrowSub"}

\* A subclass whose doAction changes the reactions of another action while the
\* propagation runs:
\*   class MutateSub extends ClassAction {
\*       constructor(op, target, arg) { super(); this.do = { op, target, arg } }
\*       doAction(context) { this.do.target[this.do.op](this.do.arg) }
\*   }
\* The README's class:
\*   class MyClassAction extends ClassAction {
\*       constructor(value, ...reactions) { super(...reactions); this.value = value }
\*       doAction(context) { context.value = (context.value || 0) + this.value }
\*   }
AllClasses == Classes \cup SubClasses \cup {"ValueSub", "MutateSub"}

reaction1 == 1
reaction2 == 2

\* An absent value (undefined) and a present sequence.
Undefined == [def |-> FALSE, val |-> <<>>]
Some(s) == [def |-> TRUE, val |-> s]

\* The superclass of a class ("" for the root of the hierarchy).
Parent(c) ==
    IF c = "ClassAction" THEN ""
    ELSE IF c \in {"DerivedSub", "OverrideSub"} THEN "StaticSub"
    ELSE "ClassAction"

\* The own static `reactions` property each class is declared with.
StaticDecl(c) ==
    IF c = "StaticSub" THEN Some(<<reaction1, reaction2>>)
    ELSE IF c = "OverrideSub" THEN Some(<<reaction2>>)
    ELSE Undefined

\* Whether the doAction of a class fails.
Throws(c) == c = "ThrowSub"

\* Whether the doAction of a class calls addReactions or removeReaction.
Mutates(c) == c = "MutateSub"

\* The instance field initialiser `reactions = [...]` of a class, if it has one.
FieldInit(c) == IF c = "FieldSub" THEN Some(<<reaction1>>) ELSE Undefined

\* The arguments a class's constructor passes to super(...).
SuperArgs(c, args) == IF c = "SuperSub" THEN <<reaction1>> \o args ELSE args

\* ------------------------------------------------------------------ state

VARIABLES
    heap,      \* heap[o]: the object o: its class, whether it has an own `reactions` property, and that array
    statics,   \* statics[c]: the own static `reactions` property of class c
    work,      \* the graph-building work done so far
    last,      \* the last API call: its name, receiver, class, arguments and context
    heap0,     \* the heap as it was when the last API call was made
    ret,       \* the value the last accessor call returned
    outcome,   \* of the last act / doReactions / doAction call: "running", "returned", "Error" or "RangeError"
    stack,     \* the call stack of the running call, innermost frame last
    log,       \* the act and doAction invocations of the last call, in order
    ctxValue,  \* context.value of the README's context object (0 for undefined)
    ctxValue0, \* context.value as it was when the last act call was made
    acts       \* the number of act calls the README's run has made

vars == <<heap, statics, work, last, heap0, ret, outcome, stack, log, ctxValue, ctxValue0, acts>>

\* The variables only the README's run changes.
readme == <<ctxValue0, acts>>

Objects == DOMAIN heap

\* The sequences of up to n references to the objects in S.
RECURSIVE SeqsUpTo(_, _)
SeqsUpTo(S, n) ==
    IF n = 0 THEN {<<>>}
    ELSE LET shorter == SeqsUpTo(S, n - 1)
         IN shorter \cup {Append(s, x) : s \in {t \in shorter : Len(t) = n - 1}, x \in S}

\* The argument lists a constructor or addReactions call can still be given.
ArgLists == IF work < MaxWork THEN SeqsUpTo(Objects, MaxWork - work - 1) ELSE {}

\* The contexts a caller passes: 0 is `undefined` (no argument), 1 an object.
Contexts == {0, 1}

\* ------------------------------------------------------------------ ClassAction

\* s without the repetitions of its elements.
RECURSIVE Unique(_)
Unique(s) ==
    IF s = <<>> THEN <<>>
    ELSE LET init == Unique(SubSeq(s, 1, Len(s) - 1))
             x == s[Len(s)]
         IN IF \E i \in 1..Len(init) : init[i] = x THEN init ELSE Append(init, x)

\* A freshly allocated instance of class c, before any constructor body ran.
Fresh(c) == [cls |-> c, own |-> FALSE, rs |-> <<>>]

\* constructor(...reactions), class-action.ts:67-72.
\* Mutants: the assignment made whatever the number of arguments; the
\* arguments stored without their repetitions.
BaseConstructorAlways(this, reactions) == [this EXCEPT !.own = TRUE, !.rs = reactions]
BaseConstructorUnique(this, reactions) ==
    IF Len(reactions) > 0
    THEN [this EXCEPT !.own = TRUE, !.rs = this.rs \o Unique(reactions)]
    ELSE this
BaseConstructor(this, reactions) ==
    IF Len(reactions) > 0
    THEN IF ~this.own
         THEN [this EXCEPT !.own = TRUE, !.rs = reactions]
         ELSE [this EXCEPT !.rs = this.rs \o reactions]
    ELSE this

\* The field initialisers of class c, which run when super(...) has returned.
\* Mutant: the default put in front of what the constructor set.
FieldInitialisersPrepend(c, this) ==
    IF FieldInit(c).def
    THEN [this EXCEPT !.own = TRUE, !.rs = FieldInit(c).val \o this.rs]
    ELSE this
FieldInitialisers(c, this) ==
    IF FieldInit(c).def
    THEN [this EXCEPT !.own = TRUE, !.rs = FieldInit(c).val]
    ELSE this

\* new c(...args): the derived constructor calls super, the base constructor
\* runs on the fresh instance, then the class's field initialisers run.
\* Mutant: the field initialisers run before the base constructor.
ConstructFieldsFirst(c, args) ==
    BaseConstructor(FieldInitialisers(c, Fresh(c)), SuperArgs(c, args))
Construct(c, args) ==
    FieldInitialisers(c, BaseConstructor(Fresh(c), SuperArgs(c, args)))

\* The static `reactions` of class c as `this.reactions` finds it: the own
\* property, or else the one inherited along the constructors' prototype chain.
\* Mutants: the own property only, as hasOwnProperty would find it; the
\* property of the class nearest the root of the chain that declares one.
StaticLookupOwn(c) == IF c = "" THEN Undefined ELSE statics[c]
RECURSIVE StaticLookupBaseFirst(_)
StaticLookupBaseFirst(c) ==
    IF c = "" THEN Undefined
    ELSE IF StaticLookupBaseFirst(Parent(c)).def THEN StaticLookupBaseFirst(Parent(c))
    ELSE statics[c]
RECURSIVE StaticLookup(_)
StaticLookup(c) ==
    IF c = "" THEN Undefined
    ELSE IF statics[c].def THEN statics[c]
    ELSE StaticLookup(Parent(c))

\* static getReactions(context), class-action.ts:89.
StaticGetReactions(c) ==
    IF StaticLookup(c).def THEN StaticLookup(c).val ELSE <<>>

\* getReactions(context), class-action.ts:104-107.
GetReactions(this) == IF ~this.own THEN <<>> ELSE this.rs

\* Array.prototype.flat() of an array of arrays of objects.
RECURSIVE Flat(_)
Flat(ss) == IF ss = <<>> THEN <<>> ELSE Head(ss) \o Flat(Tail(ss))

\* getAllReactions(context), class-action.ts:126-129.
\* Mutants: the instance's reactions before the class's; a reaction listed
\* more than once returned once.
GetAllReactionsUnique(this) ==
    Unique(Flat(<<StaticGetReactions(this.cls), GetReactions(this)>>))
GetAllReactionsSwapped(this) ==
    Flat(<<GetReactions(this), StaticGetReactions(this.cls)>>)
GetAllReactions(this) ==
    LET result == StaticGetReactions(this.cls)
    IN Flat(<<result, GetReactions(this)>>)

\* Array.prototype.indexOf: the 0-based index of the first element equal to x, or -1.
\* Mutant: lastIndexOf, the index of the last element equal to x.
LastIndexOf(s, x) ==
    IF \E i \in 1..Len(s) : s[i] = x
    THEN (CHOOSE i \in 1..Len(s) : s[i] = x /\ \A j \in (i + 1)..Len(s) : s[j] # x) - 1
    ELSE -1
IndexOf(s, x) ==
    IF \E i \in 1..Len(s) : s[i] = x
    THEN (CHOOSE i \in 1..Len(s) : s[i] = x /\ \A j \in 1..(i - 1) : s[j] # x) - 1
    ELSE -1

\* Array.prototype.splice(start, 1): a negative start counts from the end.
Splice1(s, start) ==
    LET n == Len(s)
        from == IF start < 0 THEN (IF n + start < 0 THEN 0 ELSE n + start)
                ELSE (IF start > n THEN n ELSE start)
    IN IF from >= n THEN s
       ELSE SubSeq(s, 1, from) \o SubSeq(s, from + 2, n)

\* addReactions(...reactions), class-action.ts:207-210.
\* Mutant: a reaction the sequence holds already is not added again.
AddReactionsToUnique(this, reactions) ==
    LET t == IF ~this.own THEN [this EXCEPT !.own = TRUE, !.rs = <<>>] ELSE this
    IN [t EXCEPT !.rs = Unique(t.rs \o reactions)]
AddReactionsTo(this, reactions) ==
    LET t == IF ~this.own THEN [this EXCEPT !.own = TRUE, !.rs = <<>>] ELSE this
    IN [t EXCEPT !.rs = t.rs \o reactions]

\* removeReaction(reaction), class-action.ts:223-226.
\* Mutant: without the early return, the sequence created as addReactions does.
RemoveReactionFromCreating(this, reaction) ==
    LET t == IF ~this.own THEN [this EXCEPT !.own = TRUE, !.rs = <<>>] ELSE this
    IN [t EXCEPT !.rs = Splice1(t.rs, IndexOf(t.rs, reaction))]
RemoveReactionFrom(this, reaction) ==
    IF ~this.own THEN this
    ELSE [this EXCEPT !.rs = Splice1(this.rs, IndexOf(this.rs, reaction))]


\* ------------------------------------------------------------------ propagation

\* One invocation of act or doAction, as the log records it.
Event(ev, self, ctx, depth) == [ev |-> ev, self |-> self, ctx |-> ctx, depth |-> depth]

\* doAction(context), class-action.ts:165-167, instrumented as the tests'
\* override `doAction(context) { count++ }` is: what one invocation leaves
\* behind is one entry of the log.  It calls nothing and changes no reaction.
DoAction(self, ctx, depth) == <<Event("doAction", self, ctx, depth)>>

\* The statements of act(context), class-action.ts:145-148, in order.
\* Mutant: the two statements in the other order.
ActBodyReactionsFirst == <<"doReactions", "doAction">>
ActBody == <<"doAction", "doReactions">>

\* The frame of an act(context) call on self; base is the length of the log
\* when the call was made.
ActFrame(self, ctx, base) ==
    [fn |-> "act", self |-> self, ctx |-> ctx, pc |-> 1, rs |-> <<>>, base |-> base]

\* The frame of a doReactions(context) call on self, class-action.ts:184-188:
\* the loop iterates over the array getAllReactions(context) returned.
\* Mutants: doReactions written as act is; a cycle guard, the reactions whose
\* act is still running left out; every action a reaction of itself.
DoReactionsFrameAsAct(self, ctx, base) == ActFrame(self, ctx, base)
DoReactionsFrameGuarded(self, ctx, base) ==
    [fn |-> "doReactions", self |-> self, ctx |-> ctx, pc |-> 1,
     rs |-> SelectSeq(GetAllReactions(heap[self]),
                      LAMBDA r : \A k \in 1..Len(stack) : stack[k].self # r),
     base |-> base]
DoReactionsFrameSelf(self, ctx, base) ==
    [fn |-> "doReactions", self |-> self, ctx |-> ctx, pc |-> 1,
     rs |-> Append(GetAllReactions(heap[self]), self), base |-> base]
DoReactionsFrame(self, ctx, base) ==
    [fn |-> "doReactions", self |-> self, ctx |-> ctx, pc |-> 1,
     rs |-> GetAllReactions(heap[self]), base |-> base]

\* `for (let reaction of this.getAllReactions(context))`: the array the loop
\* of frame f iterates over is the one getAllReactions returned when the loop
\* began, a new array that flat() made.
\* Mutant: the loop reading the action's reactions as they are at each step.
LoopArrayLive(f) == GetAllReactions(heap[f.self])
LoopArray(f) == f.rs

\* `for (let reaction of ...)`: the element the loop of frame f visits next.
\* Mutant: the loop run from the last element to the first.
LoopReactionBackwards(f) == f.rs[Len(f.rs) + 1 - f.pc]
LoopReaction(f) == LoopArray(f)[f.pc]

\* `reaction.act(context)`: the context the loop of frame f passes on.
\* Mutant: `reaction.act()`, the context not passed on.
LoopContextDropped(f) == 0
LoopContext(f) == f.ctx

Top == stack[Len(stack)]
Running == outcome = "running" /\ stack # <<>>

\* The stack with its top frame's pc advanced, and then frame f pushed.
Advance == [stack EXCEPT ![Len(stack)].pc = @ + 1]
Push(f) == Append(Advance, f)
Pop == SubSeq(stack, 1, Len(stack) - 1)

\* What is left of the stack when a doAction throws: act (class-action.ts:145-148)
\* and doReactions (184-188) have no try / catch, so every frame is unwound.
\* Mutant: the loop of doReactions catches what reaction.act(context) throws
\* and goes on with the next reaction.
UnwindCaughtInLoop == Pop
Unwind == <<>>

\* this.value of object o (README: `this.value = value`); the classes of the
\* tests have no such field, and their doAction adds nothing to the context.
Value(o) == IF heap[o].cls = "ValueSub" THEN heap[o].value ELSE 0

\* README doAction: context.value = (context.value || 0) + this.value.
\* Mutant: context.value = this.value.
AddValueOverwriting(total, o) == Value(o)
AddValue(total, o) == total + Value(o)

\* ------------------------------------------------------------------ calls

NoCall == [op |-> "none", self |-> 0, cls |-> "", args |-> <<>>, ctx |-> 0]
ApiCall(op, self, cls, args, ctx) ==
    [op |-> op, self |-> self, cls |-> cls, args |-> args, ctx |-> ctx]

\* The calls that build the reaction graph; the others observe it.  A run
\* builds a graph and then makes one observing call.
Builders == {"none", "new", "addReactions", "removeReaction"}
Building == last.op \in Builders

Init ==
    /\ heap = [o \in {reaction1, reaction2} |-> Construct("ClassAction", <<>>)]
    /\ statics = [c \in AllClasses |-> StaticDecl(c)]
    /\ work = 0
    /\ last = NoCall
    /\ heap0 = heap
    /\ ret = <<>>
    /\ outcome = ""
    /\ stack = <<>>
    /\ log = <<>>
    /\ ctxValue = 0
    /\ ctxValue0 = 0
    /\ acts = 0

\* new c(...args)
New(c, args) ==
    /\ Building
    /\ LET o == Cardinality(Objects) + 1
       IN /\ heap' = [x \in Objects \cup {o} |-> IF x = o THEN Construct(c, args) ELSE heap[x]]
          /\ last' = ApiCall("new", o, c, args, 0)
    /\ work' = work + 1 + Len(args)
    /\ heap0' = heap
    /\ UNCHANGED <<statics, ret, outcome, stack, log>>
    /\ UNCHANGED <<ctxValue, readme>>

\* o.addReactions(...args)
\* Mutant: the reactions pushed onto the sequence of the instance's class as
\* well, as if the instance and its class shared one array.
AddReactionsShared(o, args) ==
    /\ Building
    /\ heap' = [heap EXCEPT ![o] = AddReactionsTo(heap[o], args)]
    /\ statics' = [statics EXCEPT ![heap[o].cls] =
                      IF @.def THEN Some(@.val \o args) ELSE @]
    /\ last' = ApiCall("addReactions", o, heap[o].cls, args, 0)
    /\ work' = work + 1 + Len(args)
    /\ heap0' = heap
    /\ UNCHANGED <<ret, outcome, stack, log, ctxValue, readme>>
AddReactions(o, args) ==
    /\ Building
    /\ heap' = [heap EXCEPT ![o] = AddReactionsTo(heap[o], args)]
    /\ last' = ApiCall("addReactions", o, heap[o].cls, args, 0)
    /\ work' = work + 1 + Len(args)
    /\ heap0' = heap
    /\ UNCHANGED <<statics, ret, outcome, stack, log>>
    /\ UNCHANGED <<ctxValue, readme>>

\* o.removeReaction(r)
RemoveReaction(o, r) ==
    /\ Building
    /\ work + 2 <= MaxWork
    /\ heap' = [heap EXCEPT ![o] = RemoveReactionFrom(heap[o], r)]
    /\ last' = ApiCall("removeReaction", o, heap[o].cls, <<r>>, 0)
    /\ work' = work + 2
    /\ heap0' = heap
    /\ UNCHANGED <<statics, ret, outcome, stack, log>>
    /\ UNCHANGED <<ctxValue, readme>>

\* o.getReactions(context); the default implementation ignores the context
CallGetReactions(o) ==
    /\ Building
    /\ last' = ApiCall("getReactions", o, heap[o].cls, <<>>, 0)
    /\ ret' = GetReactions(heap[o])
    /\ heap0' = heap
    /\ UNCHANGED <<heap, statics, work, outcome, stack, log>>
    /\ UNCHANGED <<ctxValue, readme>>

\* o.getAllReactions(context)
CallGetAllReactions(o) ==
    /\ Building
    /\ last' = ApiCall("getAllReactions", o, heap[o].cls, <<>>, 0)
    /\ ret' = GetAllReactions(heap[o])
    /\ heap0' = heap
    /\ UNCHANGED <<heap, statics, work, outcome, stack, log>>
    /\ UNCHANGED <<ctxValue, readme>>

\* c.getReactions(context), the static accessor called on the class c
CallStaticGetReactions(c) ==
    /\ Building
    /\ last' = ApiCall("static getReactions", 0, c, <<>>, 0)
    /\ ret' = StaticGetReactions(c)
    /\ heap0' = heap
    /\ UNCHANGED <<heap, statics, work, outcome, stack, log>>
    /\ UNCHANGED <<ctxValue, readme>>

\* Mutant: doAction written as act is, so that it goes on to the reactions.
CallDoActionAsAct(o, ctx) ==
    /\ Building
    /\ last' = ApiCall("doAction", o, heap[o].cls, <<>>, ctx)
    /\ heap0' = heap
    /\ outcome' = "running"
    /\ stack' = <<ActFrame(o, ctx, 0)>>
    /\ log' = <<>>
    /\ UNCHANGED <<heap, statics, work, ret>>
    /\ UNCHANGED <<ctxValue, readme>>
\* o.doAction(ctx), called by the user
CallDoAction(o, ctx) ==
    /\ Building
    /\ last' = ApiCall("doAction", o, heap[o].cls, <<>>, ctx)
    /\ heap0' = heap
    /\ outcome' = IF Throws(heap[o].cls) THEN "Error" ELSE "returned"
    /\ log' = DoAction(o, ctx, 1)
    /\ UNCHANGED <<heap, statics, work, ret, stack>>
    /\ UNCHANGED <<ctxValue, readme>>

\* o.act(ctx), called by the user
CallAct(o, ctx) ==
    /\ Building
    /\ last' = ApiCall("act", o, heap[o].cls, <<>>, ctx)
    /\ heap0' = heap
    /\ outcome' = "running"
    /\ stack' = <<ActFrame(o, ctx, 1)>>
    /\ log' = <<Event("act", o, ctx, 1)>>
    /\ UNCHANGED <<heap, statics, work, ret>>
    /\ UNCHANGED <<ctxValue, readme>>

\* o.doReactions(ctx), called by the user
CallDoReactions(o, ctx) ==
    /\ Building
    /\ last' = ApiCall("doReactions", o, heap[o].cls, <<>>, ctx)
    /\ heap0' = heap
    /\ outcome' = "running"
    /\ stack' = <<DoReactionsFrame(o, ctx, 0)>>
    /\ log' = <<>>
    /\ UNCHANGED <<heap, statics, work, ret>>
    /\ UNCHANGED <<ctxValue, readme>>

\* act, class-action.ts:146: this.doAction(context)
ActDoAction ==
    /\ Running /\ Top.fn = "act"
    /\ Top.pc <= Len(ActBody) /\ ActBody[Top.pc] = "doAction"
    /\ ~Throws(heap[Top.self].cls)
    /\ ~Mutates(heap[Top.self].cls)
    /\ log' = log \o DoAction(Top.self, Top.ctx, Len(stack))
    /\ ctxValue' = AddValue(ctxValue, Top.self)
    /\ stack' = Advance
    /\ UNCHANGED <<heap, statics, work, last, heap0, ret, outcome, readme>>

\* act, class-action.ts:146, when the doAction invoked throws: the error
\* leaves every frame that does not catch it.
ActDoActionThrows ==
    /\ Running /\ Top.fn = "act"
    /\ Top.pc <= Len(ActBody) /\ ActBody[Top.pc] = "doAction"
    /\ Throws(heap[Top.self].cls)
    /\ log' = log \o DoAction(Top.self, Top.ctx, Len(stack))
    /\ stack' = Unwind
    /\ outcome' = IF Unwind = <<>> THEN "Error" ELSE "running"
    /\ UNCHANGED <<heap, statics, work, last, heap0, ret, ctxValue, readme>>

\* act, class-action.ts:147: this.doReactions(context)
ActDoReactions ==
    /\ Running /\ Top.fn = "act"
    /\ Top.pc <= Len(ActBody) /\ ActBody[Top.pc] = "doReactions"
    /\ Len(stack) < StackLimit
    /\ stack' = Push(DoReactionsFrame(Top.self, Top.ctx, Len(log)))
    /\ UNCHANGED <<heap, statics, work, last, heap0, ret, outcome, log>>
    /\ UNCHANGED <<ctxValue, readme>>

\* doReactions, class-action.ts:185-186: the loop calls reaction.act(context)
DoReactionsLoop ==
    /\ Running /\ Top.fn = "doReactions"
    /\ Top.pc <= Len(LoopArray(Top))
    /\ Len(stack) < StackLimit
    /\ stack' = Push(ActFrame(LoopReaction(Top), LoopContext(Top), Len(log) + 1))
    /\ log' = Append(log, Event("act", LoopReaction(Top), LoopContext(Top), Len(stack) + 1))
    /\ UNCHANGED <<heap, statics, work, last, heap0, ret, outcome>>
    /\ UNCHANGED <<ctxValue, readme>>

\* The end of act's body or of doReactions' loop: the call returns to its caller.
Return ==
    /\ Running
    /\ \/ Top.fn = "act" /\ Top.pc > Len(ActBody)
       \/ Top.fn = "doReactions" /\ Top.pc > Len(LoopArray(Top))
    /\ stack' = Pop
    /\ outcome' = IF Len(stack) = 1 THEN "returned" ELSE "running"
    /\ UNCHANGED <<heap, statics, work, last, heap0, ret, log>>
    /\ UNCHANGED <<ctxValue, readme>>

\* A call at the stack limit: the engine throws a RangeError, which nothing
\* catches, so the whole call ends with it.
Overflow ==
    /\ Running
    /\ Len(stack) >= StackLimit
    /\ \/ Top.fn = "act" /\ Top.pc <= Len(ActBody) /\ ActBody[Top.pc] = "doReactions"
       \/ Top.fn = "doReactions" /\ Top.pc <= Len(LoopArray(Top))
    /\ stack' = <<>>
    /\ outcome' = "RangeError"
    /\ UNCHANGED <<heap, statics, work, last, heap0, ret, log>>
    /\ UNCHANGED <<ctxValue, readme>>

Next ==
    \/ \E c \in Classes, args \in ArgLists : New(c, args)
    \/ \E o \in Objects, args \in ArgLists : AddReactions(o, args)
    \/ \E o \in Objects, r \in Objects : RemoveReaction(o, r)
    \/ \E o \in Objects : CallGetReactions(o)
    \/ \E o \in Objects : CallGetAllReactions(o)
    \/ \E c \in Classes : CallStaticGetReactions(c)
    \/ \E o \in Objects, ctx \in Contexts : CallDoAction(o, ctx)
    \/ \E o \in Objects, ctx \in Contexts : CallAct(o, ctx)
    \/ \E o \in Objects, ctx \in Contexts : CallDoReactions(o, ctx)
    \/ ActDoAction
    \/ ActDoReactions
    \/ DoReactionsLoop
    \/ Return
    \/ Overflow

Spec == Init /\ [][Next]_vars

\* ------------------------------------------------------------------ README

\* new MyClassAction(value, ...reactions): super(...reactions); this.value = value.
ReadmeObject(value, reactions) ==
    LET this == Construct("ValueSub", reactions)
    IN [cls |-> this.cls, own |-> this.own, rs |-> this.rs, value |-> value]

\* const myClassAction = new MyClassAction(5, new MyClassAction(2), new MyClassAction(7)):
\* the arguments are constructed first, so they are objects 1 and 2.
myClassAction == 3

\* The README's run: myClassAction and an empty context.
InitReadme ==
    /\ heap = <<ReadmeObject(2, <<>>), ReadmeObject(7, <<>>), ReadmeObject(5, <<1, 2>>)>>
    /\ statics = [c \in AllClasses |-> StaticDecl(c)]
    /\ work = 0
    /\ last = NoCall
    /\ heap0 = heap
    /\ ret = <<>>
    /\ outcome = ""
    /\ stack = <<>>
    /\ log = <<>>
    /\ ctxValue = 0
    /\ ctxValue0 = 0
    /\ acts = 0

\* myClassAction.act(context), on the one context object of the run.
ReadmeAct ==
    /\ outcome # "running"
    /\ acts < MaxActs
    /\ last' = ApiCall("act", myClassAction, heap[myClassAction].cls, <<>>, 1)
    /\ heap0' = heap
    /\ outcome' = "running"
    /\ stack' = <<ActFrame(myClassAction, 1, 1)>>
    /\ log' = <<Event("act", myClassAction, 1, 1)>>
    /\ ctxValue0' = ctxValue
    /\ acts' = acts + 1
    /\ UNCHANGED <<heap, statics, work, ret, ctxValue>>

\* myClassAction.reactions.splice(0, 1)
ReadmeSplice ==
    /\ outcome # "running"
    /\ heap' = [heap EXCEPT ![myClassAction].rs = Splice1(@, 0)]
    /\ last' = ApiCall("splice", myClassAction, heap[myClassAction].cls, <<>>, 0)
    /\ heap0' = heap
    /\ UNCHANGED <<statics, work, ret, outcome, stack, log, ctxValue, readme>>

NextReadme ==
    \/ ReadmeAct
    \/ ReadmeSplice
    \/ ActDoAction
    \/ ActDoReactions
    \/ DoReactionsLoop
    \/ Return

SpecReadme == InitReadme /\ [][NextReadme]_vars

\* ------------------------------------------------------------------ change during a call

\* new MutateSub(op, target, arg)
MutateObject(op, target, arg) ==
    LET this == Construct("MutateSub", <<>>)
    IN [cls |-> this.cls, own |-> this.own, rs |-> this.rs,
        do |-> [op |-> op, target |-> target, arg |-> arg]]

\* The action whose reactions change, and the action that changes them.
subject == 4
mutator == 3

\* reaction1, reaction2, a MutateSub that adds a reaction to the subject or
\* removes one from it, and the subject, which holds the MutateSub among its
\* reactions.
InitMutate ==
    /\ \E op \in {"addReactions", "removeReaction"}, arg \in {reaction1, reaction2, mutator},
          held \in SeqsUpTo({reaction1, reaction2, mutator}, MaxHeld) :
          /\ \E i \in 1..Len(held) : held[i] = mutator
          /\ heap = <<Construct("ClassAction", <<>>), Construct("ClassAction", <<>>),
                      MutateObject(op, subject, arg), Construct("ClassAction", held)>>
    /\ statics = [c \in AllClasses |-> StaticDecl(c)]
    /\ work = 0
    /\ last = NoCall
    /\ heap0 = heap
    /\ ret = <<>>
    /\ outcome = ""
    /\ stack = <<>>
    /\ log = <<>>
    /\ ctxValue = 0
    /\ ctxValue0 = 0
    /\ acts = 0

\* subject.act(context), any number of times.
MutateAct ==
    /\ outcome # "running"
    /\ acts < MaxActs
    /\ last' = ApiCall("act", subject, heap[subject].cls, <<>>, 1)
    /\ heap0' = heap
    /\ outcome' = "running"
    /\ stack' = <<ActFrame(subject, 1, 1)>>
    /\ log' = <<Event("act", subject, 1, 1)>>
    /\ acts' = acts + 1
    /\ UNCHANGED <<heap, statics, work, ret, ctxValue, ctxValue0>>

\* act, class-action.ts:146, when the doAction invoked is a MutateSub's: it
\* calls addReactions (207-210) or removeReaction (223-226) on its target.
ActDoActionMutates ==
    /\ Running /\ Top.fn = "act"
    /\ Top.pc <= Len(ActBody) /\ ActBody[Top.pc] = "doAction"
    /\ Mutates(heap[Top.self].cls)
    /\ log' = log \o DoAction(Top.self, Top.ctx, Len(stack))
    /\ LET do == heap[Top.self].do
       IN heap' = [heap EXCEPT ![do.target] =
                      IF do.op = "addReactions" THEN AddReactionsTo(@, <<do.arg>>)
                      ELSE RemoveReactionFrom(@, do.arg)]
    /\ stack' = Advance
    /\ UNCHANGED <<statics, work, last, heap0, ret, outcome, ctxValue, readme>>

NextMutate ==
    \/ MutateAct
    \/ ActDoAction
    \/ ActDoActionMutates
    \/ ActDoReactions
    \/ DoReactionsLoop
    \/ Return

SpecMutate == InitMutate /\ [][NextMutate]_vars

\* The steps of a running call.  The calls are synchronous: a call that can
\* take its next step takes it.
Propagate == ActDoAction \/ ActDoReactions \/ DoReactionsLoop \/ Return \/ Overflow

SpecLive == Init /\ [][Next]_vars /\ WF_vars(Propagate)

\* The same program with the class chain StaticSub, DerivedSub, OverrideSub
\* and the failing ThrowSub in use.
NextSub ==
    \/ \E c \in {"StaticSub"} \cup SubClasses, args \in ArgLists : New(c, args)
    \/ \E o \in Objects, args \in ArgLists : AddReactions(o, args)
    \/ \E o \in Objects, r \in Objects : RemoveReaction(o, r)
    \/ \E o \in Objects : CallGetReactions(o)
    \/ \E o \in Objects : CallGetAllReactions(o)
    \/ \E c \in Classes \cup SubClasses : CallStaticGetReactions(c)
    \/ \E o \in Objects, ctx \in Contexts : CallDoAction(o, ctx)
    \/ \E o \in Objects, ctx \in Contexts : CallAct(o, ctx)
    \/ \E o \in Objects, ctx \in Contexts : CallDoReactions(o, ctx)
    \/ ActDoAction
    \/ ActDoActionThrows
    \/ ActDoReactions
    \/ DoReactionsLoop
    \/ Return
    \/ Overflow

SpecSub == Init /\ [][NextSub]_vars

\* ------------------------------------------------------------------ properties

\* The last call was op and it has returned to the user.
Returned(op) == last.op = op /\ outcome = "returned"

\* The receivers of the doAction invocations in the log, in order.
RECURSIVE DoActionTrace(_)
DoActionTrace(l) ==
    IF l = <<>> THEN <<>>
    ELSE IF Head(l).ev = "doAction" THEN <<Head(l).self>> \o DoActionTrace(Tail(l))
    ELSE DoActionTrace(Tail(l))

\* The reactions of object o: the class-level ones, then its own.
Reactions(o) == GetAllReactions(heap[o])

\* The objects reachable from o along n or fewer reaction edges.
RECURSIVE Reach(_, _)
Reach(o, n) ==
    IF n = 0 THEN {o}
    ELSE LET near == Reach(o, n - 1)
         IN near \cup UNION {{Reactions(x)[i] : i \in 1..Len(Reactions(x))} : x \in near}

\* The objects on a non-empty path of reaction edges from o.
Descendants(o) ==
    UNION {Reach(Reactions(o)[i], Cardinality(Objects)) : i \in 1..Len(Reactions(o))}

\* No cycle of reaction edges can be reached from o.
Acyclic(o) == \A x \in {o} \cup Descendants(o) : x \notin Descendants(x)

\* The pre-order traversal of the reaction tree under o, cut at depth n.
RECURSIVE PreOrder(_, _)
RECURSIVE PreOrderAll(_, _)
PreOrder(o, n) == IF n = 0 THEN <<>> ELSE <<o>> \o PreOrderAll(Reactions(o), n - 1)
PreOrderAll(os, n) ==
    IF os = <<>> THEN <<>> ELSE PreOrder(Head(os), n) \o PreOrderAll(Tail(os), n)

\* The act events frame number k of the stack (a doReactions frame) has logged:
\* the calls its loop has made so far.
RECURSIVE ActsAt(_, _)
ActsAt(l, depth) ==
    IF l = <<>> THEN <<>>
    ELSE IF Head(l).ev = "act" /\ Head(l).depth = depth
         THEN <<Head(l)>> \o ActsAt(Tail(l), depth)
         ELSE ActsAt(Tail(l), depth)

LoopCalls(k) == ActsAt(SubSeq(log, stack[k].base + 1, Len(log)), k + 1)

\* The receivers and the contexts of a sequence of events.
Selfs(es) == [i \in 1..Len(es) |-> es[i].self]
Ctxs(es) == {es[i].ctx : i \in 1..Len(es)}

\* C1: act runs the action's own doAction before the act of any of its
\* reactions starts: every act invocation in the log is followed at once by the
\* doAction of the same action with the same context, no other invocation in
\* between, so the first doAction of an act call is the root's, and a
\* doReactions called by act starts only when that act's doAction has run.
C1_DoActionFirst ==
    /\ last.op = "act" /\ log # <<>> =>
          log[1] = Event("act", last.self, last.ctx, 1)
    /\ \A i \in 1..Len(log) :
          log[i].ev = "act" /\ i < Len(log) =>
              log[i + 1] = Event("doAction", log[i].self, log[i].ctx, log[i].depth)
    /\ \A k \in 2..Len(stack) :
          stack[k].fn = "doReactions" =>
              /\ stack[k - 1].fn = "act" /\ stack[k - 1].self = stack[k].self
              /\ stack[k].base > stack[k - 1].base
              /\ log[stack[k - 1].base + 1] =
                    Event("doAction", stack[k].self, stack[k].ctx, k - 1)

\* C1's case: an act on an action with two or more reactions has returned.
C1_Witness ==
    /\ Returned("act")
    /\ Len(Reactions(last.self)) >= 2
    /\ Len(DoActionTrace(log)) >= 3

\* C2: doReactions calls act on each element of getAllReactions, in the order of
\* that sequence, once per occurrence, each time with the context it was given:
\* the calls a running doReactions has made are a prefix of that sequence, and
\* they are the whole of it when the doReactions has returned (to the user, or
\* to the act that called it).
C2_ReactionsInOrder ==
    /\ \A k \in 1..Len(stack) :
          stack[k].fn = "doReactions" =>
              LET all == Reactions(stack[k].self)
                  calls == LoopCalls(k)
              IN /\ Len(calls) <= Len(all)
                 /\ Selfs(calls) = SubSeq(all, 1, Len(calls))
                 /\ Ctxs(calls) \subseteq {stack[k].ctx}
    /\ Returned("doReactions") =>
          /\ Selfs(ActsAt(log, 2)) = Reactions(last.self)
          /\ Ctxs(ActsAt(log, 2)) \subseteq {last.ctx}
    /\ \A k \in 1..Len(stack) :
          stack[k].fn = "act" /\ stack[k].pc > Len(ActBody) /\ k = Len(stack) =>
              LET calls == ActsAt(SubSeq(log, stack[k].base + 1, Len(log)), k + 2)
              IN /\ Selfs(calls) = Reactions(stack[k].self)
                 /\ Ctxs(calls) \subseteq {stack[k].ctx}

\* C2's case: a doReactions given an object as context, on an action whose
\* reactions list one reference twice, has returned.
C2_Witness ==
    /\ Returned("doReactions") /\ last.ctx = 1
    /\ \E i, j \in 1..Len(Reactions(last.self)) :
          i # j /\ Reactions(last.self)[i] = Reactions(last.self)[j]
    /\ Len(ActsAt(log, 2)) = Len(Reactions(last.self))

\* C3: doReactions does not invoke the action's own doAction: no invocation a
\* doReactions call makes is at the depth of the call itself, and on an action
\* whose n reactions are all leaves it causes exactly n doAction invocations,
\* none of them on the action.
C3_ReactionsOnly ==
    /\ last.op = "doReactions" => \A i \in 1..Len(log) : log[i].depth >= 2
    /\ Returned("doReactions")
       /\ (\A i \in 1..Len(Reactions(last.self)) :
              Reactions(Reactions(last.self)[i]) = <<>>) =>
          /\ Len(DoActionTrace(log)) = Len(Reactions(last.self))
          /\ \A i \in 1..Len(DoActionTrace(log)) : DoActionTrace(log)[i] # last.self

\* C3's case: doReactions on an action with two leaf reactions has returned.
C3_Witness ==
    /\ Returned("doReactions")
    /\ Len(Reactions(last.self)) = 2
    /\ \A i \in 1..2 : Reactions(Reactions(last.self)[i]) = <<>>
    /\ Len(DoActionTrace(log)) = 2

\* C4: doAction called directly performs the local effect once and triggers no
\* reaction: it returns at once, its one invocation is all the log holds (no act
\* and no other doAction), and every reaction sequence, of instances and of
\* classes, is as it was.
C4_DoActionOnly ==
    last.op = "doAction" =>
        /\ outcome = "returned" /\ stack = <<>>
        /\ log = <<Event("doAction", last.self, last.ctx, 1)>>
        /\ heap = heap0
        /\ statics = [c \in DOMAIN statics |-> StaticDecl(c)]

\* C4's case: doAction called on an action that has class-level and
\* instance-level reactions.
C4_Witness ==
    /\ last.op = "doAction"
    /\ StaticGetReactions(last.cls) # <<>>
    /\ GetReactions(heap[last.self]) # <<>>

\* C5: propagation is depth-first in list order: when act on an action from
\* which no cycle can be reached has returned, the doAction invocations it made
\* are the pre-order traversal of the reaction tree under that action.
C5_PreOrder ==
    Returned("act") /\ Acyclic(last.self) =>
        DoActionTrace(log) = PreOrder(last.self, Cardinality(Objects))

\* C5's case: an act has returned whose root has a reaction with a reaction of
\* its own, followed by another reaction.
C5_Witness ==
    /\ Returned("act") /\ Acyclic(last.self)
    /\ \E i \in 1..Len(Reactions(last.self)) :
          /\ Reactions(Reactions(last.self)[i]) # <<>>
          /\ i < Len(Reactions(last.self))

\* C6: getAllReactions returns the class-level sequence of the instance's own
\* class followed by the instance's own sequence, each in its order and with
\* its duplicates; a StaticSub (class-level [r1, r2]) constructed with
\* (r1, r2) gives [r1, r2, r1, r2].
C6_ClassThenInstance ==
    last.op = "getAllReactions" =>
        LET class == StaticGetReactions(heap[last.self].cls)
            own == GetReactions(heap[last.self])
        IN /\ Len(ret) = Len(class) + Len(own)
           /\ \A i \in 1..Len(class) : ret[i] = class[i]
           /\ \A i \in 1..Len(own) : ret[Len(class) + i] = own[i]
           /\ heap[last.self].cls = "StaticSub" => class = <<reaction1, reaction2>>
           /\ heap[last.self].cls = "StaticSub" /\ own = <<reaction1, reaction2>> =>
                 ret = <<reaction1, reaction2, reaction1, reaction2>>

\* C6's case: getAllReactions on a StaticSub constructed with (r1, r2).
C6_Witness ==
    /\ last.op = "getAllReactions"
    /\ heap[last.self].cls = "StaticSub"
    /\ heap[last.self].rs = <<reaction1, reaction2>>
    /\ ret = <<reaction1, reaction2, reaction1, reaction2>>

\* C7: constructing an action of a class with no field initialiser with a
\* non-empty argument list makes getReactions() that list, in order and with
\* duplicates; a SuperSub, whose constructor calls super(r1, ...args), gets r1
\* followed by its arguments, so (r1, r2) gives [r1, r1, r2].
C7_ConstructorArguments ==
    last.op = "new" =>
        LET this == heap[last.self]
        IN /\ last.cls \in {"ClassAction", "StaticSub"} /\ last.args # <<>> =>
                 this.own /\ GetReactions(this) = last.args
           /\ last.cls = "SuperSub" =>
                 this.own /\ GetReactions(this) = <<reaction1>> \o last.args
           /\ last.cls = "SuperSub" /\ last.args = <<reaction1, reaction2>> =>
                 GetReactions(this) = <<reaction1, reaction1, reaction2>>

\* C7's case: new SuperSub(r1, r2).
C7_Witness ==
    /\ last.op = "new" /\ last.cls = "SuperSub"
    /\ last.args = <<reaction1, reaction2>>
    /\ GetReactions(heap[last.self]) = <<reaction1, reaction1, reaction2>>

\* C8: an instance of the base class constructed with no arguments has no own
\* reactions property, and getReactions(), the class's getReactions() and
\* getAllReactions() all return the empty sequence.
C8_NoArguments ==
    last.op = "new" /\ last.cls = "ClassAction" /\ last.args = <<>> =>
        /\ ~heap[last.self].own
        /\ GetReactions(heap[last.self]) = <<>>
        /\ StaticGetReactions("ClassAction") = <<>>
        /\ GetAllReactions(heap[last.self]) = <<>>

\* C8's case: new ClassAction().
C8_Witness ==
    /\ last.op = "new" /\ last.cls = "ClassAction" /\ last.args = <<>>
    /\ last.self \in Objects

\* C9: a FieldSub, which declares the field `reactions = [r1]`, constructed with
\* (r1, r2) ends with the instance sequence [r1].
C9_FieldDefaultWins ==
    last.op = "new" /\ last.cls = "FieldSub"
    /\ last.args = <<reaction1, reaction2>> =>
        /\ heap[last.self].own
        /\ heap[last.self].rs = <<reaction1>>
        /\ GetReactions(heap[last.self]) = <<reaction1>>

\* C9's case: new FieldSub(r1, r2).
C9_Witness ==
    /\ last.op = "new" /\ last.cls = "FieldSub"
    /\ last.args = <<reaction1, reaction2>>
    /\ heap[last.self].rs = <<reaction1>>

\* C10 as claimed: when a class declares a field default, the constructor's
\* arguments are appended to it: the instance sequence is the default followed
\* by the arguments.
C10_ArgumentsAppended ==
    last.op = "new" /\ FieldInit(last.cls).def =>
        heap[last.self].rs = FieldInit(last.cls).val \o last.args

\* C10 as amended: when a class declares a field default, its initialiser runs
\* after the base constructor and replaces the sequence the base constructor
\* set from the arguments: whatever the arguments, the instance sequence is the
\* default alone, and no argument is appended to it.
C10_ArgumentsDiscarded ==
    last.op = "new" /\ FieldInit(last.cls).def =>
        /\ heap[last.self].own
        /\ heap[last.self].rs = FieldInit(last.cls).val
        /\ Len(heap[last.self].rs) = Len(FieldInit(last.cls).val)
        /\ last.args # <<>> =>
              heap[last.self].rs # FieldInit(last.cls).val \o last.args

\* C10's case: a FieldSub constructed with an argument that is not its default.
C10_Witness ==
    /\ last.op = "new" /\ FieldInit(last.cls).def
    /\ last.args = <<reaction2>>
    /\ heap[last.self].rs = <<reaction1>>

\* The objects other than the receiver of the last call are as they were
\* before it, and so are the class-level sequences.
OthersUntouched ==
    /\ DOMAIN heap = DOMAIN heap0
    /\ \A x \in Objects \ {last.self} : heap[x] = heap0[x]
    /\ statics = [c \in DOMAIN statics |-> StaticDecl(c)]

\* An instance of the base class constructed with the arguments s.
Holding(s) == Construct("ClassAction", s)

\* C11: addReactions(x1, ..., xk) on an instance whose sequence is s (or
\* absent, counting as empty) leaves the instance with an own sequence equal to
\* s followed by x1, ..., xk: earlier elements keep their positions, nothing is
\* deduplicated; [r1, r2] then addReactions(r2, r2) gives [r1, r2, r2, r2].
C11_AddAppends ==
    /\ last.op = "addReactions" =>
          LET s == GetReactions(heap0[last.self])
              this == heap[last.self]
          IN /\ this.own
             /\ this.rs = s \o last.args
             /\ Len(this.rs) = Len(s) + Len(last.args)
             /\ \A i \in 1..Len(s) : this.rs[i] = s[i]
             /\ OthersUntouched
    /\ AddReactionsTo(Holding(<<reaction1, reaction2>>), <<reaction2, reaction2>>).rs
          = <<reaction1, reaction2, reaction2, reaction2>>

\* C11's case: addReactions of a reaction the non-empty sequence holds already.
C11_Witness ==
    /\ last.op = "addReactions"
    /\ heap0[last.self].own /\ heap0[last.self].rs = <<reaction1>>
    /\ last.args = <<reaction1>>
    /\ heap[last.self].rs = <<reaction1, reaction1>>

\* s without its i-th element.
Without(s, i) == SubSeq(s, 1, i - 1) \o SubSeq(s, i + 1, Len(s))

\* t is s with exactly the first occurrence of r taken out.
FirstRemoved(s, r, t) ==
    \E i \in 1..Len(s) :
        /\ s[i] = r
        /\ \A j \in 1..(i - 1) : s[j] # r
        /\ t = Without(s, i)
        /\ Len(t) = Len(s) - 1

\* C12: removeReaction(r) on an instance whose sequence holds r removes exactly
\* the first occurrence of r: the length drops by one and every other element,
\* later occurrences of r included, stays in its relative order.
C12_RemovesFirstOccurrence ==
    /\ last.op = "removeReaction" /\ heap0[last.self].own
       /\ (\E i \in 1..Len(heap0[last.self].rs) : heap0[last.self].rs[i] = last.args[1]) =>
          /\ heap[last.self].own
          /\ FirstRemoved(heap0[last.self].rs, last.args[1], heap[last.self].rs)
          /\ OthersUntouched
    /\ \A s \in {<<reaction1, reaction2>>, <<reaction1, reaction2, reaction1>>,
                  <<reaction2, reaction1, reaction1>>} :
          \A r \in {reaction1, reaction2} :
              FirstRemoved(s, r, RemoveReactionFrom(Holding(s), r).rs)

\* C12's case: removeReaction of a reaction the sequence holds.
C12_Witness ==
    /\ last.op = "removeReaction"
    /\ heap0[last.self].own /\ heap0[last.self].rs = <<reaction1>>
    /\ last.args = <<reaction1>>
    /\ heap[last.self].own /\ heap[last.self].rs = <<>>

\* C13: removeReaction(r) on an instance whose own sequence exists but does not
\* hold r is a silent no-op: the sequence is unchanged, [r1] stays [r1].
C13_AbsentIsNoOp ==
    last.op = "removeReaction" /\ heap0[last.self].own
    /\ (\A i \in 1..Len(heap0[last.self].rs) : heap0[last.self].rs[i] # last.args[1]) =>
        heap[last.self] = heap0[last.self]

\* C14: removeReaction(r) on an instance with no own sequence is a silent
\* no-op: it creates no sequence and leaves the instance, the other instances
\* and the class-level sequences as they were.
C14_NoSequenceIsNoOp ==
    last.op = "removeReaction" /\ ~heap0[last.self].own =>
        /\ ~heap[last.self].own
        /\ heap = heap0
        /\ statics = [c \in DOMAIN statics |-> StaticDecl(c)]

\* C14's case: removeReaction on a StaticSub constructed without arguments,
\* whose class has reactions though the instance has no sequence.
C14_Witness ==
    /\ last.op = "removeReaction" /\ last.cls = "StaticSub"
    /\ ~heap0[last.self].own
    /\ ~heap[last.self].own
    /\ StaticGetReactions(last.cls) = <<reaction1, reaction2>>

\* The receivers of the act calls the loop of the doReactions call the user
\* made has made: the reactions it has fired, in order.
Fired == Selfs(ActsAt(log, 2))

\* C15 as claimed: a class that declares no class-level sequence of its own
\* gets the empty sequence from the class's getReactions(), even when its
\* superclass declares a non-empty one, and its instances fire their own
\* reactions only.
C15_OnlyOwnDeclared ==
    /\ last.op = "static getReactions" /\ ~StaticDecl(last.cls).def => ret = <<>>
    /\ Returned("doReactions") /\ ~StaticDecl(last.cls).def =>
          Fired = GetReactions(heap[last.self])

\* C15 as amended: a class that declares no class-level sequence of its own
\* gets from the class's getReactions() the sequence of its superclass:
\* DerivedSub, which extends StaticSub (class-level [r1, r2]), returns
\* [r1, r2], and its instances fire r1 and r2 before their own reactions; the
\* result is empty only for a class with no declaration anywhere on its chain.
C15_InheritsDeclared ==
    /\ last.op = "static getReactions" =>
          /\ last.cls = "DerivedSub" => ret = <<reaction1, reaction2>>
          /\ last.cls \in {"ClassAction", "FieldSub", "SuperSub", "ThrowSub"} => ret = <<>>
          /\ ~StaticDecl(last.cls).def /\ Parent(last.cls) # "" =>
                ret = StaticGetReactions(Parent(last.cls))
    /\ Returned("doReactions") /\ last.cls = "DerivedSub" =>
          Fired = <<reaction1, reaction2>> \o GetReactions(heap[last.self])

\* C15's case: the class's getReactions() called on DerivedSub.
C15_Witness ==
    /\ last.op = "static getReactions" /\ last.cls = "DerivedSub"
    /\ ~StaticDecl("DerivedSub").def
    /\ ret = <<reaction1, reaction2>>

\* C16: class-level reactions are those of the instance's own class: StaticSub
\* returns exactly its declared [r1, r2]; an instance fires its class's
\* reactions first and its own after them, and its getReactions() holds its own
\* only; OverrideSub, which extends StaticSub and declares [r2], and its
\* instances use [r2], not StaticSub's sequence.
C16_MostDerived ==
    /\ last.op = "static getReactions" =>
          /\ last.cls = "StaticSub" => ret = <<reaction1, reaction2>>
          /\ last.cls = "OverrideSub" => ret = <<reaction2>>
          /\ StaticDecl(last.cls).def => ret = StaticDecl(last.cls).val
    /\ Returned("doReactions") /\ StaticDecl(last.cls).def =>
          LET class == StaticDecl(last.cls).val
              own == GetReactions(heap[last.self])
          IN /\ Fired = class \o own
             /\ \A i \in 1..Len(class) : Fired[i] = class[i]
    /\ last.op = "getReactions" =>
          ret = IF heap[last.self].own THEN heap[last.self].rs ELSE <<>>
    /\ last.op = "getAllReactions" /\ last.cls = "OverrideSub" =>
          ret = <<reaction2>> \o GetReactions(heap[last.self])

\* C16's case: doReactions on an OverrideSub constructed with (r1) has returned,
\* having fired r2 and then r1.
C16_Witness ==
    /\ Returned("doReactions") /\ last.cls = "OverrideSub"
    /\ heap[last.self].rs = <<reaction1>>
    /\ Fired = <<reaction2, reaction1>>

\* The doAction invocations, in depth-first order, that the last call would
\* make on the graph as it is if none of them failed.
FullTrace ==
    IF last.op = "act" THEN PreOrder(last.self, Cardinality(Objects))
    ELSE PreOrderAll(Reactions(last.self), Cardinality(Objects))

\* The invocation number i of the log is a doAction that throws.
Failing(i) == log[i].ev = "doAction" /\ Throws(heap[log[i].self].cls)

C18_Terminates ==
    /\ [](last.op = "act" /\ Acyclic(last.self) =>
             /\ outcome \in {"running", "returned"}
             /\ Len(DoActionTrace(log)) <= Len(PreOrder(last.self, Cardinality(Objects))))
    /\ (last.op = "act" /\ outcome = "running" /\ Acyclic(last.self))
           ~> (last.op = "act" /\ outcome = "returned")

\* C18's case: an act call on an acyclic graph with class-level and
\* instance-level edges has returned.
C18_Witness ==
    /\ last.op = "act" /\ outcome = "returned" /\ stack = <<>>
    /\ Acyclic(last.self)
    /\ StaticGetReactions(last.cls) # <<>>
    /\ GetReactions(heap[last.self]) # <<>>
    /\ Len(DoActionTrace(log)) = 1 + Len(Reactions(last.self))

\* The number of doAction invocations on object x in the log.
Invocations(x) == Cardinality({i \in 1..Len(log) : log[i].ev = "doAction" /\ log[i].self = x})

\* C19: there is no cycle guard: an act call on an action from which a cycle
\* can be reached (an action among its own reactions included) never returns
\* normally; the doAction of an action on a cycle is invoked again and again,
\* one nested act deeper each time, until the call stack is exhausted and the
\* call ends with the engine's RangeError.
C19_NoCycleGuard ==
    /\ [](last.op = "act" /\ ~Acyclic(last.self) =>
             /\ outcome \in {"running", "RangeError"}
             /\ outcome = "RangeError" =>
                   /\ 2 * Len(DoActionTrace(log)) >= StackLimit
                   /\ \E x \in Objects : x \in Descendants(x) /\ Invocations(x) >= 2)
    /\ (last.op = "act" /\ outcome = "running" /\ ~Acyclic(last.self))
           ~> (last.op = "act" /\ outcome = "RangeError")

\* C19's case: act on an action that is its own only reaction has invoked
\* nothing but that action's doAction, once per nested act, down to the stack
\* limit.
C19_Witness ==
    /\ last.op = "act" /\ outcome = "RangeError"
    /\ Reactions(last.self) = <<last.self>>
    /\ 2 * Invocations(last.self) = StackLimit
    /\ Len(DoActionTrace(log)) = Invocations(last.self)

\* The sum of this.value over the objects of the sequence os.
RECURSIVE SumValues(_)
SumValues(os) == IF os = <<>> THEN 0 ELSE heap[Head(os)].value + SumValues(Tail(os))

\* C20: the README's example: doAction adds the action's value to
\* context.value; with a root of value 5 holding the leaf reactions 2 and 7,
\* every act on the same context adds the sum of the values of the root and of
\* the reactions it holds at that moment: 14 and then 28 while it holds both,
\* and, once the first element of its sequence is removed, 12 more, 40 after
\* 28; what earlier acts added stays.
C20_ReadmeSums ==
    Returned("act") =>
        LET held == GetAllReactions(heap[myClassAction])
        IN /\ ctxValue = ctxValue0 + heap[myClassAction].value + SumValues(held)
           /\ ctxValue >= ctxValue0
           /\ held = <<1, 2>> => ctxValue = ctxValue0 + 14
           /\ held = <<1, 2>> /\ acts = 1 => ctxValue = 14
           /\ held = <<1, 2>> /\ acts = 2 => ctxValue = 28
           /\ held = <<2>> => ctxValue = ctxValue0 + 12
           /\ held = <<2>> /\ ctxValue0 = 28 => ctxValue = 40

\* C20's case: the third act of the README's run, made after the splice, has
\* returned with context.value 40.
C20_Witness ==
    /\ Returned("act") /\ acts = 3
    /\ heap[myClassAction].rs = <<2>>
    /\ ctxValue0 = 28
    /\ ctxValue = 40

\* C21: lazy allocation: an instance carries an own sequence only if a reaction
\* was added to it, through constructor arguments or addReactions: a call that
\* hands no reaction to an instance without a sequence (a constructor of a
\* class without a default called with no arguments, addReactions called with no
\* arguments) leaves it without one.
C21_LazyAllocation ==
    /\ last.op = "new" /\ last.args = <<>> /\ ~FieldInit(last.cls).def
       /\ SuperArgs(last.cls, <<>>) = <<>> =>
          ~heap[last.self].own
    /\ last.op = "addReactions" /\ last.args = <<>> /\ ~heap0[last.self].own =>
          ~heap[last.self].own

\* The receivers of the act calls the loop of the doReactions of the act call
\* the user made has made: the reactions that act has fired, in order.
FiredByAct == Selfs(ActsAt(log, 3))

\* The object this after n invocations of the doAction of the MutateSub m
\* with this as its target.
RECURSIVE Changed(_, _, _)
Changed(this, m, n) ==
    IF n = 0 THEN this
    ELSE LET before == Changed(this, m, n - 1)
         IN IF m.do.op = "addReactions" THEN AddReactionsTo(before, <<m.do.arg>>)
            ELSE RemoveReactionFrom(before, m.do.arg)

\* C22: doReactions iterates over a snapshot: when a doAction that runs during
\* the propagation of an action calls addReactions or removeReaction on that
\* action, the reactions its running doReactions fires are, in set and order,
\* those it held when the doReactions began (a removed one still fires, an
\* added one does not); the change is in the action's sequence when the call
\* has returned, and the next act fires the changed sequence.
C22_Snapshot ==
    last.op = "act" /\ last.self = subject =>
        LET began == GetAllReactions(heap0[subject])
        IN /\ Len(FiredByAct) <= Len(began)
           /\ FiredByAct = SubSeq(began, 1, Len(FiredByAct))
           /\ outcome = "returned" =>
                 /\ FiredByAct = began
                 /\ heap[subject] =
                       Changed(heap0[subject], heap[mutator],
                               Cardinality({i \in 1..Len(began) : began[i] = mutator}))

\* C22's case: the subject held the MutateSub and then reaction1; the
\* MutateSub removed reaction1 from it during the call, and reaction1 was
\* fired all the same.
C22_Witness ==
    /\ Returned("act") /\ last.self = subject
    /\ heap0[subject].rs = <<mutator, reaction1>>
    /\ heap[subject].rs = <<mutator>>
    /\ FiredByAct = <<mutator, reaction1>>

\* C23: addReactions and removeReaction on an instance change that instance's
\* own sequence only: whatever calls were made, the class-level sequence of
\* every class is as declared, and a call leaves every other instance, those
\* constructed from the same arguments included, as it was; getReactions,
\* getAllReactions, the class's getReactions, doAction, act and doReactions
\* change no sequence at all.
C23_OwnSequenceOnly ==
    /\ \A c \in DOMAIN statics : statics[c] = StaticDecl(c)
    /\ last.op \in {"addReactions", "removeReaction"} =>
          /\ DOMAIN heap = DOMAIN heap0
          /\ \A x \in Objects : x # last.self => heap[x] = heap0[x]
          /\ heap[last.self].cls = heap0[last.self].cls
          /\ StaticGetReactions(last.cls) =
                (IF last.cls \in {"StaticSub", "DerivedSub"} THEN <<reaction1, reaction2>>
                 ELSE IF last.cls = "OverrideSub" THEN <<reaction2>> ELSE <<>>)
    /\ last.op \in {"getReactions", "getAllReactions", "static getReactions",
                     "doAction", "act", "doReactions"} =>
          heap = heap0

\* C23's case: addReactions with an argument on an instance of StaticSub, whose
\* class has reactions of its own, while another instance exists that was
\* constructed from the same arguments as the receiver.
C23_Witness ==
    /\ last.op = "addReactions" /\ last.cls = "StaticSub" /\ last.args # <<>>
    /\ heap[last.self] # heap0[last.self]
    /\ heap0[reaction1] = heap0[reaction2]
    /\ heap[reaction1] = heap[reaction2]
    /\ statics["StaticSub"].val = <<reaction1, reaction2>>

\* The reaction edges that leave object o: one for every entry of the
\* sequence of its class, then one for every entry of its own sequence.
Edges(o) == StaticGetReactions(heap[o].cls) \o GetReactions(heap[o])

\* The number of paths of at most n edges from object o to object x, the empty
\* path from x to itself included.
RECURSIVE Paths(_, _, _)
RECURSIVE PathsFrom(_, _, _)
Paths(o, x, n) ==
    (IF o = x THEN 1 ELSE 0) + (IF n = 0 THEN 0 ELSE PathsFrom(Edges(o), x, n - 1))
PathsFrom(os, x, n) ==
    IF os = <<>> THEN 0 ELSE Paths(Head(os), x, n) + PathsFrom(Tail(os), x, n)

\* C24: on an acyclic reaction graph, in which actions may be shared between
\* parents, one act on the root invokes the doAction of every action as many
\* times as there are paths from the root to it, every entry of a class-level
\* or instance-level sequence counting as an edge of its own: a shared or
\* repeated reaction is neither deduplicated nor skipped, and an action that
\* cannot be reached from the root is not invoked.
C24_OncePerPath ==
    Returned("act") /\ Acyclic(last.self) =>
        \A x \in Objects :
            /\ Invocations(x) = Paths(last.self, x, Cardinality(Objects))
            /\ x \notin {last.self} \cup Descendants(last.self) => Invocations(x) = 0

\* C24's case: an act has returned on a root that reaches one action along two
\* paths through two different parents, and that action was invoked twice.
C24_Witness ==
    /\ Returned("act") /\ Acyclic(last.self)
    /\ \E x, p, q \in Objects :
          /\ p # q
          /\ \E i \in 1..Len(Edges(p)) : Edges(p)[i] = x
          /\ \E i \in 1..Len(Edges(q)) : Edges(q)[i] = x
          /\ Invocations(p) = 1 /\ Invocations(q) = 1
          /\ Invocations(x) = 2

====
